---- MODULE Spec2Model ----
(***************************************************************************)
(* Model of the supervision layer of the esp32_aws telemetry agent:       *)
(* main() of src/main.rs (startup, the two bounded retry loops, the main  *)
(* cycle) and try_reconnect_wifi() of src/wifi.rs (the recovery           *)
(* procedure).  One action per blocking call of the code; the outcome of  *)
(* every call into a driver (sensor, wifi, mqtt) is chosen by the         *)
(* environment.                                                           *)
(***************************************************************************)
EXTENDS Integers, Sequences, FiniteSets, TLC

(* ---------------- program constants ---------------- *)

\* main.rs:16
MAX_RETRY_ATTEMPTS == 3
\* main.rs:17
RETRY_DELAY_MS == 5000
\* main.rs:142  delay.delay_ms(5000u32)
LOOP_DELAY_MS == 5000
\* wifi.rs:94   FreeRtos::delay_ms(10000) after a failed connect()
RECONNECT_DELAY_MS == 10000
\* wifi.rs:99   FreeRtos::delay_ms(10000) before the re-subscribe
SETTLE_DELAY_MS == 10000

(* ---------------- bounds of the model ---------------- *)

\* number of leading session-creation attempts the environment lets fail
MaxCreateFailures == 4
\* the bookkeeping counters of the model saturate at this value
MaxCount == 4
\* number of successful measurements followed in one run
MaxReadings == 2

(* ---------------- state ---------------- *)

VARIABLES
    pc,             \* position of the single thread of control
    retry_count,    \* main.rs:77  let mut retry_count
    client,         \* main.rs:78  let mut client : "None" or "Some"
    rcResult,       \* value returned by try_reconnect_wifi: "none", "Ok", "Err"
    caller,         \* call site of the running try_reconnect_wifi
    exitCause,      \* why the process ended ("none" while it runs)
    createFailures, \* environment: creation attempts 1..createFailures fail
    createAttempts, \* EspMqttClient::new_cb calls made so far
    startupSubs,    \* subscribe calls made by the startup loop
    subscribed,     \* some subscribe call has returned Ok
    called,         \* driver operations called so far in the run
    last,           \* the most recent call: [op, res]
    iter,           \* bookkeeping of the current iteration of the main cycle
    rec,            \* bookkeeping of the current run of try_reconnect_wifi
    data,           \* main.rs:155  let (data, _state): the reading in scope
    sensor_json,    \* main.rs:166  let sensor_json: the payload in scope
    readNo,         \* number of readings get_sensor_data has returned
    sent,           \* numbers of the readings handed to publish so far
    wire,           \* reading number and bytes of the latest publish call
    sessions,       \* number of sessions EspMqttClient::new_cb has returned
    cbLog           \* the latest run of the message callback: event, bytes,
                    \* and what the callback did

\* the variables of the main thread (everything but the callback's log)
mainVars == <<pc, retry_count, client, rcResult, caller, exitCause,
              createFailures, createAttempts, startupSubs, subscribed,
              called, last, iter, rec, data, sensor_json, readNo, sent,
              wire, sessions>>

vars == <<pc, retry_count, client, rcResult, caller, exitCause,
          createFailures, createAttempts, startupSubs, subscribed,
          called, last, iter, rec, data, sensor_json, readNo, sent,
          wire, sessions, cbLog>>

\* Result<bool, EspError> of EspWifi::is_connected()
LinkResults == {"up", "down", "err"}

Bump(n) == IF n < MaxCount THEN n + 1 ELSE n

IterStart ==
    [delays |-> 0, checks |-> 0, linkTop |-> "none", modes |-> 0,
     reads |-> 0, publishes |-> 0, recoveries |-> 0]

RecStart ==
    [checks |-> 0, lastObs |-> "none", connects |-> 0, sleeps |-> 0,
     settles |-> 0, subscribes |-> 0]

Call(op, res) == [op |-> op, res |-> res]

(* ---------------- readings, text and JSON ---------------- *)

\* A reading of the BME680 (main.rs:155): temperature, humidity and pressure
\* are f32 values, kept here in tenths; the gas resistance is a u32 in ohm.
\* Readings the sensor returns in the runs of the main cycle
SensorReadings ==
    { [t |-> 217, h |-> 553, p |-> 10132, g |-> 12000],
      [t |-> -53, h |-> 553, p |-> 10132, g |-> 12000] }

\* Readings the encoding is applied to on its own
EncReadings ==
    [t : {-53, -9, 0, 217, 999}, h : {0, 553, 1000},
     p : {3000, 10132, 11000}, g : {0, 12000, 100000}]

\* no reading in scope, no payload in scope, nothing published yet
NoData == [no |-> 0, r |-> [t |-> 0, h |-> 0, p |-> 0, g |-> 0]]

NoJson == <<>>

NoWire == [no |-> 0, bytes |-> <<>>]

Digit == <<"0", "1", "2", "3", "4", "5", "6", "7", "8", "9">>

\* Display of a u32 by format!("{}")
RECURSIVE Decimal(_)
Decimal(n) ==
    IF n < 10 THEN <<Digit[n + 1]>>
              ELSE Decimal(n \div 10) \o <<Digit[(n % 10) + 1]>>

\* main.rs:161  `x as u32` of an f32 given in tenths: the fraction is
\* dropped and a negative value saturates to 0
AsU32(x10) == IF x10 < 0 THEN 0 ELSE x10 \div 10

\* main.rs:161  format!("{}, {}, {}, {}", ..)
FormatReading(r) ==
    Decimal(AsU32(r.t)) \o <<",", " ">> \o Decimal(AsU32(r.h))
        \o <<",", " ">> \o Decimal(AsU32(r.p))
        \o <<",", " ">> \o Decimal(r.g)

\* the callback has not run
NoCallback == [ev |-> "none", bytes |-> <<>>, did |-> "none"]

JsonPrefix == <<"{", "\"", "m", "e", "s", "s", "a", "g", "e", "\"", ":", "\"">>

JsonSuffix == <<"\"", "}">>

\* the string escaping of serde_json for the characters of the model
RECURSIVE JsonEscape(_)
JsonEscape(t) ==
    IF t = <<>> THEN <<>>
    ELSE (IF Head(t) \in {"\"", "\\"} THEN <<"\\", Head(t)>>
                                        ELSE <<Head(t)>>)
            \o JsonEscape(Tail(t))

\* main.rs:162-166  serde_json::to_string(&MqttMessage { message })
ToJson(t) == JsonPrefix \o JsonEscape(t) \o JsonSuffix

\* a byte that cannot occur in UTF-8 text
InvalidByte == "0xFF"

\* std::str::from_utf8(data).is_ok()
IsUtf8(b) == \A i \in 1..Len(b) : b[i] # InvalidByte

\* the body of a JSON string up to its closing quote
RECURSIVE JsonUnescape(_)
JsonUnescape(b) ==
    IF b = <<>> THEN [ok |-> TRUE, text |-> <<>>]
    ELSE IF Head(b) = "\"" THEN [ok |-> FALSE, text |-> <<>>]
    ELSE IF Head(b) = "\\"
      THEN IF Len(b) >= 2 /\ b[2] \in {"\"", "\\"}
             THEN LET r == JsonUnescape(SubSeq(b, 3, Len(b)))
                  IN  [ok |-> r.ok, text |-> <<b[2]>> \o r.text]
             ELSE [ok |-> FALSE, text |-> <<>>]
      ELSE LET r == JsonUnescape(Tail(b))
           IN  [ok |-> r.ok, text |-> <<Head(b)>> \o r.text]

\* main.rs:90-91  serde_json::from_slice::<MqttMessage>(data)
FromJson(b) ==
    LET n  == Len(b)
        np == Len(JsonPrefix)
    IN  IF /\ IsUtf8(b)
           /\ n >= np + 2
           /\ SubSeq(b, 1, np) = JsonPrefix
           /\ SubSeq(b, n - 1, n) = JsonSuffix
          THEN JsonUnescape(SubSeq(b, np + 1, n - 2))
          ELSE [ok |-> FALSE, text |-> <<>>]

Init ==
    /\ pc = "sensor_init"
    /\ retry_count = 0
    /\ client = "None"
    /\ rcResult = "none"
    /\ caller = "none"
    /\ exitCause = "none"
    /\ createFailures \in 0..MaxCreateFailures
    /\ createAttempts = 0
    /\ startupSubs = 0
    /\ subscribed = FALSE
    /\ called = {}
    /\ last = Call("start", "none")
    /\ iter = IterStart
    /\ rec = RecStart
    /\ data = NoData
    /\ sensor_json = NoJson
    /\ readNo = 0
    /\ sent = {}
    /\ wire = NoWire
    /\ sessions = 0
    /\ cbLog = NoCallback

(* ---------------- loop conditions and the environment ---------------- *)

\* the loop test of main.rs:80 stopping one attempt early
CreateLoopContinues_OneShort(rc) == rc + 1 < MAX_RETRY_ATTEMPTS

\* the loop test of main.rs:80 written with <=
CreateLoopContinues_Inclusive(rc) == rc <= MAX_RETRY_ATTEMPTS

\* main.rs:80   while retry_count < MAX_RETRY_ATTEMPTS
CreateLoopContinues(rc) == rc < MAX_RETRY_ATTEMPTS

\* the loop test of main.rs:125 written with <=
SubscribeLoopContinues_Inclusive(rc) == rc <= MAX_RETRY_ATTEMPTS

\* main.rs:125  while retry_count < MAX_RETRY_ATTEMPTS
SubscribeLoopContinues(rc) == rc < MAX_RETRY_ATTEMPTS

\* main.rs:81-108  result of the n-th EspMqttClient::new_cb call when the
\* environment lets the first `fails` calls fail
CreateOutcome(n, fails) == IF n > fails THEN "Ok" ELSE "Err"

(* ---------------- startup: main.rs:23-64 ---------------- *)

\* main.rs:23-61  peripherals, I2C, Bme680::init, settings, forced mode;
\* every step is followed by `?`
SensorInit ==
    /\ pc = "sensor_init"
    /\ \E ok \in BOOLEAN :
         /\ last' = Call("sensor_init", IF ok THEN "Ok" ELSE "Err")
         /\ IF ok
              THEN pc' = "wifi_init" /\ exitCause' = exitCause
              ELSE pc' = "exit" /\ exitCause' = "startup_sensor"
    /\ called' = called \cup {"sensor_init"}
    /\ UNCHANGED <<data, sensor_json, readNo, sent, wire, sessions, cbLog>>
    /\ UNCHANGED <<retry_count, client, rcResult, caller, createFailures,
                   createAttempts, startupSubs, subscribed, iter, rec>>

\* main.rs:64  let mut wifi = wifi(...)?;   (wifi.rs:14-81)
WifiInit ==
    /\ pc = "wifi_init"
    /\ \E ok \in BOOLEAN :
         /\ last' = Call("wifi_init", IF ok THEN "Ok" ELSE "Err")
         /\ IF ok
              THEN /\ pc' = IF CreateLoopContinues(0) THEN "create"
                                                        ELSE "create_done"
                   /\ exitCause' = exitCause
              ELSE pc' = "exit" /\ exitCause' = "startup_wifi"
    /\ called' = called \cup {"wifi_init"}
    \* main.rs:77-78
    /\ retry_count' = 0
    /\ client' = "None"
    /\ UNCHANGED <<data, sensor_json, readNo, sent, wire, sessions, cbLog>>
    /\ UNCHANGED <<rcResult, caller, createFailures, createAttempts,
                   startupSubs, subscribed, iter, rec>>

(* ---------------- session creation: main.rs:76-121 ---------------- *)

\* the Ok arm of main.rs:109-112 without its break
CreateNext_NoBreak(res) ==
    IF res = "Ok"
      THEN (IF CreateLoopContinues(retry_count) THEN "create"
                                                ELSE "create_done")
      ELSE "create_sleep"

\* main.rs:109-117  break on Ok, sleep on Err
CreateNext(res) == IF res = "Ok" THEN "create_done" ELSE "create_sleep"

\* main.rs:81-118  one pass of the loop body up to the sleep
CreateAttempt ==
    /\ pc = "create"
    /\ LET res == CreateOutcome(createAttempts + 1, createFailures) IN
         /\ last' = Call("new_cb", res)
         /\ pc' = CreateNext(res)
         /\ IF res = "Ok"
              THEN \* main.rs:109-112
                   /\ client' = "Some"
                   /\ sessions' = Bump(sessions)
                   /\ retry_count' = retry_count
              ELSE \* main.rs:113-115
                   /\ client' = client
                   /\ sessions' = sessions
                   /\ retry_count' = retry_count + 1
    /\ createAttempts' = Bump(createAttempts)
    /\ called' = called \cup {"new_cb"}
    /\ UNCHANGED <<data, sensor_json, readNo, sent, wire, cbLog>>
    /\ UNCHANGED <<rcResult, caller, exitCause, createFailures,
                   startupSubs, subscribed, iter, rec>>

\* main.rs:116  thread::sleep(RETRY_DELAY_MS), then the loop test of line 80
CreateSleep ==
    /\ pc = "create_sleep"
    /\ last' = Call("sleep", RETRY_DELAY_MS)
    /\ pc' = IF CreateLoopContinues(retry_count) THEN "create"
                                                 ELSE "create_done"
    /\ UNCHANGED <<data, sensor_json, readNo, sent, wire, sessions, cbLog>>
    /\ UNCHANGED <<retry_count, client, rcResult, caller, exitCause,
                   createFailures, createAttempts, startupSubs, subscribed,
                   called, iter, rec>>

\* main.rs:121-125  client.ok_or_else(...)?; retry_count = 0; loop test
CreateDone ==
    /\ pc = "create_done"
    /\ IF client = "None"
         THEN /\ pc' = "exit"
              /\ exitCause' = "create_exhausted"
              /\ retry_count' = retry_count
         ELSE /\ pc' = IF SubscribeLoopContinues(0) THEN "subscribe"
                                                    ELSE "loop_delay"
              /\ exitCause' = exitCause
              /\ retry_count' = 0
    /\ UNCHANGED <<data, sensor_json, readNo, sent, wire, sessions, cbLog>>
    /\ UNCHANGED <<client, rcResult, caller, createFailures, createAttempts,
                   startupSubs, subscribed, called, last, iter, rec>>

(* ---------------- initial subscription: main.rs:123-139 ---------------- *)

\* main.rs:126-133  one pass of the loop body up to the sleep
SubscribeAttempt ==
    /\ pc = "subscribe"
    /\ \E ok \in BOOLEAN :
         /\ last' = Call("subscribe", IF ok THEN "Ok" ELSE "Err")
         /\ IF ok
              THEN \* main.rs:127-130
                   /\ subscribed' = TRUE
                   /\ retry_count' = retry_count
                   /\ pc' = "loop_delay"
              ELSE \* main.rs:131-133
                   /\ subscribed' = subscribed
                   /\ retry_count' = retry_count + 1
                   /\ pc' = "subscribe_sleep"
    /\ startupSubs' = Bump(startupSubs)
    /\ called' = called \cup {"subscribe"}
    /\ UNCHANGED <<data, sensor_json, readNo, sent, wire, sessions, cbLog>>
    /\ UNCHANGED <<client, rcResult, caller, exitCause, createFailures,
                   createAttempts, iter, rec>>

\* main.rs:134  thread::sleep(RETRY_DELAY_MS), then the loop test of line 125
SubscribeSleep ==
    /\ pc = "subscribe_sleep"
    /\ last' = Call("sleep", RETRY_DELAY_MS)
    /\ pc' = IF SubscribeLoopContinues(retry_count) THEN "subscribe"
                                                    ELSE "loop_delay"
    /\ UNCHANGED <<data, sensor_json, readNo, sent, wire, sessions, cbLog>>
    /\ UNCHANGED <<retry_count, client, rcResult, caller, exitCause,
                   createFailures, createAttempts, startupSubs, subscribed,
                   called, iter, rec>>

(* ---------------- the main cycle: main.rs:141-181 ---------------- *)

\* a link found down being polled again at the top of the iteration
LinkCheckNext_Poll(r) ==
    CASE r = "err"  -> "exit"
      [] r = "down" -> "link_check"
      [] r = "up"   -> "set_mode"

\* the test of main.rs:144 without its negation
LinkCheckNext_Inverted(r) ==
    CASE r = "err"  -> "exit"
      [] r = "down" -> "set_mode"
      [] r = "up"   -> "rc_check"

\* main.rs:144-147  if !wifi.is_connected()? { try_reconnect_wifi(..)?; continue; }
LinkCheckNext(r) ==
    CASE r = "err"  -> "exit"
      [] r = "down" -> "rc_check"
      [] r = "up"   -> "set_mode"

\* the iteration going from the mode setting straight to the encoding,
\* without reading the sensor
SetModeNext_SkipRead(ok) == IF ok THEN "encode" ELSE "exit"

\* main.rs:149-153  dev.set_sensor_mode(..).map_err(..)?
SetModeNext(ok) == IF ok THEN "get_data" ELSE "exit"

\* a failed read logged and the iteration abandoned instead of `?`
GetDataNext_Continue(ok) == IF ok THEN "encode" ELSE "loop_delay"

\* main.rs:155-159  dev.get_sensor_data(..).map_err(..)?
GetDataNext(ok) == IF ok THEN "encode" ELSE "exit"

\* every successful publish followed by a re-subscribe
PublishNext_Resub(ok) == IF ok THEN "rc_subscribe" ELSE "rc_check"

\* a failed publish answered by publishing again at once
PublishNext_Retry(ok) == IF ok THEN "loop_delay" ELSE "publish"

\* main.rs:173-180  match on the result of client.publish
PublishNext(ok) == IF ok THEN "loop_delay" ELSE "rc_check"

\* the result of try_reconnect_wifi ignored by the call site
ReturnNext_Swallow(res) == "loop_delay"

\* the interrupted iteration taken up again at the measurement
ReturnNext_Resume(res) == IF res = "Err" THEN "exit" ELSE "set_mode"

\* the failed publish repeated with the same payload after the recovery
ReturnNext_Republish(res) ==
    IF res = "Err" THEN "exit"
    ELSE IF caller = "publish_fail" THEN "publish" ELSE "loop_delay"

\* main.rs:145 and main.rs:178  try_reconnect_wifi(..)?  followed by
\* `continue` (line 146) or by the end of the loop body (line 181)
ReturnNext(res) == IF res = "Err" THEN "exit" ELSE "loop_delay"

\* main.rs:142  delay.delay_ms(5000u32): a new iteration begins
LoopDelay ==
    /\ pc = "loop_delay"
    /\ last' = Call("delay", LOOP_DELAY_MS)
    /\ iter' = [IterStart EXCEPT !.delays = 1]
    /\ pc' = "link_check"
    /\ caller' = "none"
    /\ UNCHANGED <<data, sensor_json, readNo, sent, wire, sessions, cbLog>>
    /\ UNCHANGED <<retry_count, client, rcResult, exitCause,
                   createFailures, createAttempts, startupSubs, subscribed,
                   called, rec>>

\* main.rs:144-147
LinkCheck ==
    /\ pc = "link_check"
    /\ \E r \in LinkResults :
         /\ last' = Call("is_connected", r)
         /\ pc' = LinkCheckNext(r)
         /\ iter' = [iter EXCEPT !.checks = Bump(@), !.linkTop = r,
                                 !.recoveries = IF LinkCheckNext(r) = "rc_check"
                                                  THEN Bump(@) ELSE @]
         /\ caller' = IF LinkCheckNext(r) = "rc_check" THEN "link_down"
                                                       ELSE caller
         /\ rec' = IF LinkCheckNext(r) = "rc_check" THEN RecStart ELSE rec
         /\ exitCause' = IF LinkCheckNext(r) = "exit" THEN "link_query"
                                                      ELSE exitCause
    /\ called' = called \cup {"is_connected"}
    /\ UNCHANGED <<data, sensor_json, readNo, sent, wire, sessions, cbLog>>
    /\ UNCHANGED <<retry_count, client, rcResult, createFailures,
                   createAttempts, startupSubs, subscribed>>

\* main.rs:149-153  dev.set_sensor_mode(ForcedMode) ... ?
SetSensorMode ==
    /\ pc = "set_mode"
    /\ \E ok \in BOOLEAN :
         /\ last' = Call("set_sensor_mode", IF ok THEN "Ok" ELSE "Err")
         /\ pc' = SetModeNext(ok)
         /\ exitCause' = IF SetModeNext(ok) = "exit" THEN "sensor"
                                                     ELSE exitCause
    /\ iter' = [iter EXCEPT !.modes = Bump(@)]
    /\ called' = called \cup {"set_sensor_mode"}
    /\ UNCHANGED <<data, sensor_json, readNo, sent, wire, sessions, cbLog>>
    /\ UNCHANGED <<retry_count, client, rcResult, caller, createFailures,
                   createAttempts, startupSubs, subscribed, rec>>

\* main.rs:155-159  dev.get_sensor_data() ... ?
GetSensorData ==
    /\ pc = "get_data"
    /\ \E ok \in BOOLEAN, r \in SensorReadings :
         /\ ok => readNo < MaxReadings
         /\ last' = Call("get_sensor_data", IF ok THEN "Ok" ELSE "Err")
         /\ pc' = GetDataNext(ok)
         /\ exitCause' = IF GetDataNext(ok) = "exit" THEN "sensor"
                                                     ELSE exitCause
         /\ data' = IF ok THEN [no |-> readNo + 1, r |-> r] ELSE data
         /\ readNo' = IF ok THEN readNo + 1 ELSE readNo
    /\ iter' = [iter EXCEPT !.reads = Bump(@)]
    /\ called' = called \cup {"get_sensor_data"}
    /\ UNCHANGED <<sensor_json, sent, wire, sessions, cbLog>>
    /\ UNCHANGED <<retry_count, client, rcResult, caller, createFailures,
                   createAttempts, startupSubs, subscribed, rec>>

\* main.rs:161-166  format!, MqttMessage, serde_json::to_string
Encode ==
    /\ pc = "encode"
    /\ last' = Call("encode", "Ok")
    /\ sensor_json' = ToJson(FormatReading(data.r))
    /\ pc' = "publish"
    /\ UNCHANGED <<data, readNo, sent, wire, sessions, cbLog>>
    /\ UNCHANGED <<retry_count, client, rcResult, caller, exitCause,
                   createFailures, createAttempts, startupSubs, subscribed,
                   called, iter, rec>>

\* main.rs:168-180  client.publish(...) and the match on its result
Publish ==
    /\ pc = "publish"
    /\ \E ok \in BOOLEAN :
         /\ last' = Call("publish", IF ok THEN "Ok" ELSE "Err")
         /\ pc' = PublishNext(ok)
         /\ iter' = [iter EXCEPT !.publishes = Bump(@),
                                 !.recoveries = IF PublishNext(ok) = "rc_check"
                                                  THEN Bump(@) ELSE @]
         /\ caller' = IF PublishNext(ok) = "rc_check" THEN "publish_fail"
                                                      ELSE caller
         /\ rec' = IF PublishNext(ok) = "rc_check" THEN RecStart ELSE rec
         \* main.rs:181  the iteration's locals go out of scope
         /\ data' = IF PublishNext(ok) = "loop_delay" THEN NoData ELSE data
         /\ sensor_json' = IF PublishNext(ok) = "loop_delay" THEN NoJson
                                                             ELSE sensor_json
    \* main.rs:168-173  the bytes of sensor_json are handed to publish
    /\ wire' = [no |-> data.no, bytes |-> sensor_json]
    /\ sent' = sent \cup {data.no}
    /\ called' = called \cup {"publish"}
    /\ UNCHANGED <<readNo, sessions, cbLog>>
    /\ UNCHANGED <<retry_count, client, rcResult, exitCause, createFailures,
                   createAttempts, startupSubs, subscribed>>

(* ---------------- recovery: wifi.rs:83-103 ---------------- *)

\* the loop of wifi.rs:90 as a do-while: the first pass connects whatever
\* the link reports
RcLoopNext_ConnectFirst(r) ==
    CASE r = "err"  -> "panic"
      [] r = "down" -> "rc_connect"
      [] r = "up"   -> IF rec.checks = 0 THEN "rc_connect" ELSE "rc_settle"

\* the loop of wifi.rs:90 giving up after MAX_RETRY_ATTEMPTS connects
RcLoopNext_Limited(r) ==
    CASE r = "err"  -> "panic"
      [] r = "down" -> IF rec.connects >= MAX_RETRY_ATTEMPTS
                         THEN "rc_settle" ELSE "rc_connect"
      [] r = "up"   -> "rc_settle"

\* wifi.rs:90  while !wifi.is_connected().unwrap()
RcLoopNext(r) ==
    CASE r = "err"  -> "panic"
      [] r = "down" -> "rc_connect"
      [] r = "up"   -> "rc_settle"

\* a successful connect() taken as proof of the link, without the loop test
RcConnectNext_NoRecheck(ok) == IF ok THEN "rc_settle" ELSE "rc_sleep"

\* wifi.rs:92-95  if wifi.connect().is_err() { delay_ms(10000) }
RcConnectNext(ok) == IF ok THEN "rc_check" ELSE "rc_sleep"

\* wifi.rs:101-102  mqtt_client.subscribe(..)?; Ok(())
RcSubscribeResult(ok) == IF ok THEN "Ok" ELSE "Err"

\* wifi.rs:90  the loop test
RcCheck ==
    /\ pc = "rc_check"
    /\ \E r \in LinkResults :
         /\ last' = Call("is_connected", r)
         /\ pc' = RcLoopNext(r)
         /\ rec' = [rec EXCEPT !.checks = Bump(@), !.lastObs = r]
         /\ exitCause' = IF RcLoopNext(r) = "panic" THEN "link_query_panic"
                                                    ELSE exitCause
    /\ iter' = [iter EXCEPT !.checks = Bump(@)]
    /\ called' = called \cup {"is_connected"}
    /\ UNCHANGED <<data, sensor_json, readNo, sent, wire, sessions, cbLog>>
    /\ UNCHANGED <<retry_count, client, rcResult, caller, createFailures,
                   createAttempts, startupSubs, subscribed>>

\* wifi.rs:91-92  wifi.connect()
RcConnect ==
    /\ pc = "rc_connect"
    /\ \E ok \in BOOLEAN :
         /\ last' = Call("connect", IF ok THEN "Ok" ELSE "Err")
         /\ pc' = RcConnectNext(ok)
    /\ rec' = [rec EXCEPT !.connects = Bump(@)]
    /\ called' = called \cup {"connect"}
    /\ UNCHANGED <<data, sensor_json, readNo, sent, wire, sessions, cbLog>>
    /\ UNCHANGED <<retry_count, client, rcResult, caller, exitCause,
                   createFailures, createAttempts, startupSubs, subscribed,
                   iter>>

\* wifi.rs:93-94  FreeRtos::delay_ms(10000)
RcSleep ==
    /\ pc = "rc_sleep"
    /\ last' = Call("sleep", RECONNECT_DELAY_MS)
    /\ pc' = "rc_check"
    /\ rec' = [rec EXCEPT !.sleeps = Bump(@)]
    /\ UNCHANGED <<data, sensor_json, readNo, sent, wire, sessions, cbLog>>
    /\ UNCHANGED <<retry_count, client, rcResult, caller, exitCause,
                   createFailures, createAttempts, startupSubs, subscribed,
                   called, iter>>

\* wifi.rs:98-99  FreeRtos::delay_ms(10000)
RcSettle ==
    /\ pc = "rc_settle"
    /\ last' = Call("settle", SETTLE_DELAY_MS)
    /\ pc' = "rc_subscribe"
    /\ rec' = [rec EXCEPT !.settles = Bump(@)]
    /\ UNCHANGED <<data, sensor_json, readNo, sent, wire, sessions, cbLog>>
    /\ UNCHANGED <<retry_count, client, rcResult, caller, exitCause,
                   createFailures, createAttempts, startupSubs, subscribed,
                   called, iter>>

\* wifi.rs:100-102  the re-subscribe and the return of the function
RcSubscribe ==
    /\ pc = "rc_subscribe"
    /\ \E ok \in BOOLEAN :
         /\ last' = Call("subscribe", IF ok THEN "Ok" ELSE "Err")
         /\ rcResult' = RcSubscribeResult(ok)
         /\ subscribed' = (subscribed \/ ok)
    /\ pc' = "rc_return"
    /\ rec' = [rec EXCEPT !.subscribes = Bump(@)]
    /\ called' = called \cup {"subscribe"}
    /\ UNCHANGED <<data, sensor_json, readNo, sent, wire, sessions, cbLog>>
    /\ UNCHANGED <<retry_count, client, caller, exitCause, createFailures,
                   createAttempts, startupSubs, iter>>

\* main.rs:145-146 and main.rs:178  the call site receives the result
RcReturn ==
    /\ pc = "rc_return"
    /\ pc' = ReturnNext(rcResult)
    /\ exitCause' = IF ReturnNext(rcResult) = "exit" THEN "resubscribe"
                                                     ELSE exitCause
    /\ rcResult' = "none"
    /\ last' = Call("return", rcResult)
    \* main.rs:146, main.rs:181  the iteration's locals go out of scope
    /\ data' = IF ReturnNext(rcResult) = "loop_delay" THEN NoData ELSE data
    /\ sensor_json' = IF ReturnNext(rcResult) = "loop_delay" THEN NoJson
                                                             ELSE sensor_json
    /\ UNCHANGED <<readNo, sent, wire, sessions, cbLog>>
    /\ UNCHANGED <<retry_count, client, caller, createFailures,
                   createAttempts, startupSubs, subscribed, called, iter, rec>>

(* ---------------- the message callback: main.rs:84-107 ---------------- *)

\* EventPayload variants the closure tells apart; "Other" stands for the
\* variants of the catch-all arm
EventKinds == {"Connected", "Subscribed", "Received", "Other"}

\* inbound data: empty, a well-formed message, text that is not JSON, a
\* byte that is not UTF-8, and a message whose string holds such a byte
Payloads ==
    { <<>>,
      ToJson(<<"h", "i">>),
      <<"{", "n", "o", "t", " ", "j", "s", "o", "n">>,
      <<InvalidByte>>,
      JsonPrefix \o <<InvalidByte>> \o JsonSuffix }

\* main.rs:85-106  what the closure does with one event; in the Err arm
\* std::str::from_utf8(data).unwrap() panics on bytes that are not UTF-8
CallbackDoes(ev, b) ==
    CASE ev = "Connected"  -> "log_connected"
      [] ev = "Subscribed" -> "log_subscribed"
      [] ev = "Received"   ->
            IF b = <<>> THEN "nothing"
            ELSE IF FromJson(b).ok THEN "log_received"
            ELSE IF IsUtf8(b) THEN "log_parse_error"
            ELSE "panic"
      [] OTHER             -> "log_payload"

\* main.rs:84-107  one invocation of the closure, on the thread of the mqtt
\* client, at any time once the session exists
Callback ==
    /\ client = "Some"
    /\ pc \notin {"exit", "panic"}
    /\ \E ev \in EventKinds, b \in Payloads :
         LET did == CallbackDoes(ev, b) IN
         /\ cbLog' = [ev |-> ev,
                      bytes |-> IF ev = "Received" THEN b ELSE <<>>,
                      did |-> did]
         /\ pc' = IF did = "panic" THEN "panic" ELSE pc
         /\ exitCause' = IF did = "panic" THEN "callback_panic" ELSE exitCause
    /\ UNCHANGED <<retry_count, client, rcResult, caller, createFailures,
                   createAttempts, startupSubs, subscribed, called, last,
                   iter, rec, data, sensor_json, readNo, sent, wire, sessions>>

Next ==
    \/ SensorInit
    \/ WifiInit
    \/ CreateAttempt
    \/ CreateSleep
    \/ CreateDone
    \/ SubscribeAttempt
    \/ SubscribeSleep
    \/ LoopDelay
    \/ LinkCheck
    \/ SetSensorMode
    \/ GetSensorData
    \/ Encode
    \/ Publish
    \/ RcCheck
    \/ RcConnect
    \/ RcSleep
    \/ RcSettle
    \/ RcSubscribe
    \/ RcReturn

Spec == Init /\ [][Next]_vars

\* the single thread of control always takes its next step: every blocking
\* call returns and every sleep ends
FairSpec == Spec /\ WF_vars(Next)

\* the main thread together with the callback thread of the mqtt client
ConcNext ==
    \/ Next
    \/ Callback

ConcSpec == Init /\ [][ConcNext]_vars

\* the encoding of main.rs:161-166 applied to a range of readings: the first
\* iteration after a startup without failures has just read the sensor
EncInit ==
    /\ pc = "encode"
    /\ data \in {[no |-> 1, r |-> r] : r \in EncReadings}
    /\ readNo = 1
    /\ retry_count = 0
    /\ client = "Some"
    /\ sessions = 1
    /\ rcResult = "none"
    /\ caller = "none"
    /\ exitCause = "none"
    /\ createFailures = 0
    /\ createAttempts = 1
    /\ startupSubs = 1
    /\ subscribed = TRUE
    /\ called = {"sensor_init", "wifi_init", "new_cb", "subscribe",
                 "is_connected", "set_sensor_mode", "get_sensor_data"}
    /\ last = Call("get_sensor_data", "Ok")
    /\ iter = [IterStart EXCEPT !.delays = 1, !.checks = 1, !.linkTop = "up",
                                !.modes = 1, !.reads = 1]
    /\ rec = RecStart
    /\ sensor_json = NoJson
    /\ sent = {}
    /\ wire = NoWire
    /\ cbLog = NoCallback

EncNext == Encode

EncSpec == EncInit /\ [][EncNext]_vars

TypeOK ==
    /\ pc \in {"sensor_init", "wifi_init", "create", "create_sleep",
               "create_done", "subscribe", "subscribe_sleep", "loop_delay",
               "link_check", "set_mode", "get_data", "encode", "publish",
               "rc_check", "rc_connect", "rc_sleep", "rc_settle",
               "rc_subscribe", "rc_return", "exit", "panic"}
    /\ retry_count \in 0..MAX_RETRY_ATTEMPTS
    /\ client \in {"None", "Some"}
    /\ rcResult \in {"none", "Ok", "Err"}
    /\ caller \in {"none", "link_down", "publish_fail"}
    /\ createFailures \in 0..MaxCreateFailures
    /\ createAttempts \in 0..MaxCount
    /\ startupSubs \in 0..MaxCount
    /\ subscribed \in BOOLEAN
    /\ readNo \in 0..MaxReadings
    /\ sent \subseteq 1..MaxReadings
    /\ sessions \in 0..MaxCount
    /\ data = NoData \/ (data.no \in 1..MaxReadings /\ data.r \in SensorReadings \cup EncReadings)

(* ---------------- positions ---------------- *)

StartupPcs == {"sensor_init", "wifi_init", "create", "create_sleep",
               "create_done", "subscribe", "subscribe_sleep"}

\* inside try_reconnect_wifi
RecoveryPcs == {"rc_check", "rc_connect", "rc_sleep", "rc_settle",
                "rc_subscribe"}

\* inside the reconnect loop of wifi.rs:90-96
ReconnectLoopPcs == {"rc_check", "rc_connect", "rc_sleep"}

Terminated == pc \in {"exit", "panic"}

(* ---------------- C1 ---------------- *)

\* C1: in an iteration of the main cycle whose link check at the top of the
\* iteration observed "disconnected", neither set_sensor_mode nor
\* get_sensor_data nor publish is called; try_reconnect_wifi is entered from
\* the link-check call site, and the iteration has nothing left to run but
\* that recovery.
C1_LinkDownSkipsIteration ==
    iter.linkTop = "down" =>
        /\ iter.modes = 0
        /\ iter.reads = 0
        /\ iter.publishes = 0
        /\ iter.recoveries = 1
        /\ caller = "link_down"
        /\ pc \in RecoveryPcs \cup {"rc_return", "loop_delay", "exit", "panic"}

\* the recovery entered after a link-down observation has returned and the
\* iteration is over without a measurement or a publish
C1_Witness ==
    /\ iter.linkTop = "down"
    /\ pc = "loop_delay"
    /\ last = Call("return", "Ok")
    /\ iter.publishes = 0

(* ---------------- C2 ---------------- *)

\* the creation retry loop of main.rs:80-119 is over (by break or by its test)
CreationLoopEnded ==
    /\ pc \notin {"sensor_init", "wifi_init", "create", "create_sleep"}
    /\ exitCause \notin {"startup_sensor", "startup_wifi"}

\* C2 as claimed: for every N with 0 <= N <= 3, when the first N creation
\* attempts fail and the next one would succeed, the creation loop ends with
\* a client, after N + 1 attempts.
C2_AsClaimed ==
    (CreationLoopEnded /\ createFailures <= 3) =>
        (client = "Some" /\ createAttempts = createFailures + 1)

\* C2 (amended): for every N with 0 <= N <= 2, when the first N creation
\* attempts fail and the next one succeeds, the creation loop ends with a
\* client after exactly N + 1 attempts, startup continues with the
\* subscription loop, and no creation attempt is ever made after the success.
C2_CreationSucceedsWithinBudget ==
    /\ [](  (CreationLoopEnded /\ createFailures <= 2) =>
               (client = "Some" /\ createAttempts = createFailures + 1))
    /\ [][ (pc = "create_done" /\ client = "Some") =>
               (pc' = "subscribe" /\ retry_count' = 0) ]_vars
    /\ [][ client = "Some" =>
               (createAttempts' = createAttempts /\ client' = "Some") ]_vars

\* two failures, then the third attempt succeeded and the main cycle runs
C2_Witness ==
    /\ createFailures = 2
    /\ createAttempts = 3
    /\ client = "Some"
    /\ pc = "link_check"

(* ---------------- C3 ---------------- *)

\* C3: when every creation attempt fails, the creation loop makes exactly
\* MAX_RETRY_ATTEMPTS (3) attempts, each failed attempt followed by the loop
\* test, and then main returns the exhaustion error; no client exists and
\* subscribe, set_sensor_mode, get_sensor_data and publish are never called.
\* Under FairSpec the loop does end: once it is entered with every attempt
\* failing, the exit with the exhaustion error is eventually reached.
C3_CreationExhaustion ==
    /\ [](  createFailures >= MAX_RETRY_ATTEMPTS =>
               /\ createAttempts <= 3
               /\ client = "None"
               /\ called \cap {"subscribe", "set_sensor_mode",
                                "get_sensor_data", "publish",
                                "is_connected", "connect"} = {}
               /\ CreationLoopEnded =>
                     /\ createAttempts = 3
                     /\ pc \in {"create_done", "exit"}
                     /\ pc = "exit" => exitCause = "create_exhausted")
    /\ [][ (pc = "create_done" /\ client = "None") =>
               (pc' = "exit" /\ exitCause' = "create_exhausted") ]_vars
    /\ [][ pc = "exit" => FALSE ]_vars
    /\ (pc = "create" /\ createFailures >= MAX_RETRY_ATTEMPTS)
          ~> (pc = "exit" /\ exitCause = "create_exhausted")

\* the process has ended with the exhaustion error after three attempts
C3_Witness ==
    /\ pc = "exit"
    /\ exitCause = "create_exhausted"
    /\ createAttempts = 3
    /\ retry_count = 3

(* ---------------- C4 ---------------- *)

\* C4: a failed publish is followed at once by the entry into
\* try_reconnect_wifi (from the publish call site); publish is called at
\* most once per iteration, and whenever publish is about to be called the
\* running iteration has performed its 5000 ms delay, one link check that
\* observed "connected" and one measurement, and no recovery is running or
\* has run in it.
C4_PublishFailureEntersRecovery ==
    /\ [][ (pc = "publish" /\ last'.res = "Err") =>
               /\ pc' = "rc_check"
               /\ caller' = "publish_fail"
               /\ rec' = RecStart
               /\ iter'.recoveries = 1 ]_vars
    /\ [][ last'.op = "publish" => pc = "publish" ]_vars
    /\ [](  pc = "publish" =>
               /\ iter.delays = 1
               /\ iter.checks = 1
               /\ iter.linkTop = "up"
               /\ iter.modes = 1
               /\ iter.reads = 1
               /\ iter.publishes = 0
               /\ iter.recoveries = 0
               /\ caller = "none"
               /\ rcResult = "none")
    /\ [](iter.publishes <= 1)
    /\ [](  (caller = "publish_fail" /\ ~Terminated) =>
               pc \in RecoveryPcs \cup {"rc_return", "loop_delay"})

\* a publish has just failed and the recovery procedure has been entered
C4_Witness ==
    /\ last = Call("publish", "Err")
    /\ pc = "rc_check"
    /\ caller = "publish_fail"

(* ---------------- C5 ---------------- *)

\* C5 as claimed: a link-down observation or a publish failure only triggers
\* the recovery procedure and is never escalated to process exit: main never
\* returns an error in an iteration that entered the recovery procedure.
C5_ConnectivityFaultsAbsorbed ==
    pc = "exit" => iter.recoveries = 0

(* ---------------- C6 ---------------- *)

\* C6: one run of try_reconnect_wifi issues the re-subscribe exactly once, on
\* the session created at startup (no new_cb call is made in recovery); a
\* failed re-subscribe is not retried: the function returns Err at once, and
\* the call site (main.rs:145 or main.rs:178) propagates it, so that main
\* returns the error instead of starting another iteration.
C6_ResubscribeOnceAndPropagates ==
    /\ [](rec.subscribes <= 1)
    /\ [](  pc = "rc_return" =>
               /\ rec.subscribes = 1
               /\ client = "Some"
               /\ caller \in {"link_down", "publish_fail"}
               /\ rcResult = last.res
               /\ last.op = "subscribe")
    /\ [][ pc = "rc_subscribe" =>
               /\ pc' = "rc_return"
               /\ last'.op = "subscribe"
               /\ rcResult' = last'.res ]_vars
    /\ [][ (pc = "rc_return" /\ rcResult = "Err") =>
               (pc' = "exit" /\ exitCause' = "resubscribe") ]_vars
    /\ [][ (pc \in RecoveryPcs \cup {"rc_return"}) =>
               (createAttempts' = createAttempts) ]_vars

\* the re-subscribe of a recovery entered after a publish failure has failed
\* and main has returned the error
C6_Witness ==
    /\ pc = "exit"
    /\ exitCause = "resubscribe"
    /\ caller = "publish_fail"
    /\ rec.subscribes = 1

(* ---------------- C7 ---------------- *)

\* C7: a failure of set_sensor_mode or of get_sensor_data in the main cycle
\* ends the process at once with the sensor error: no publish is called and
\* no recovery is entered in that iteration, each of the two sensor calls has
\* been made at most once in it, and nothing runs after the exit.
C7_SensorFaultIsFatal ==
    /\ [][ (pc \in {"set_mode", "get_data"} /\ last'.res = "Err") =>
               (pc' = "exit" /\ exitCause' = "sensor") ]_vars
    /\ [](  (last.op \in {"set_sensor_mode", "get_sensor_data"}
                /\ last.res = "Err") =>
               /\ pc = "exit"
               /\ exitCause = "sensor"
               /\ iter.publishes = 0
               /\ iter.recoveries = 0
               /\ iter.modes = 1
               /\ iter.reads <= 1)
    /\ [][ exitCause = "sensor" => FALSE ]_vars

\* get_sensor_data has failed and the process has ended
C7_Witness ==
    /\ last = Call("get_sensor_data", "Err")
    /\ pc = "exit"
    /\ exitCause = "sensor"

(* ---------------- C8 ---------------- *)

\* C8: the startup loop calls subscribe at most 3 times and only while no
\* call has succeeded; a success leaves the loop for the main cycle; after 3
\* failures the loop also leaves for the main cycle, the process does not
\* end, and no subscription has been confirmed.
C8_InitialSubscriptionNonFatal ==
    /\ [](startupSubs <= 3)
    /\ [][ startupSubs' # startupSubs =>
               (pc = "subscribe" /\ ~subscribed) ]_vars
    /\ [][ (pc = "subscribe" /\ last'.res = "Ok") =>
               (pc' = "loop_delay" /\ subscribed') ]_vars
    /\ [][ (pc = "subscribe_sleep" /\ startupSubs = 3) =>
               /\ pc' = "loop_delay"
               /\ ~subscribed'
               /\ exitCause' = "none" ]_vars
    /\ [][ (pc \in {"subscribe", "subscribe_sleep"}) => ~Terminated' ]_vars

\* three failed attempts, and the main cycle is running unsubscribed
C8_Witness ==
    /\ startupSubs = 3
    /\ ~subscribed
    /\ pc = "publish"

(* ---------------- C9 ---------------- *)

\* C9: every run of try_reconnect_wifi starts at the loop test with nothing
\* done; the settle sleep is taken only after the loop has observed
\* "connected"; the re-subscribe is issued only right after the one
\* 10000 ms settle sleep, with "connected" the latest observation; inside
\* the loop neither the settle sleep nor the re-subscribe has happened.
C9_RecoveryOrder ==
    /\ [][ (pc \notin RecoveryPcs /\ pc' \in RecoveryPcs) =>
               (pc' = "rc_check" /\ rec' = RecStart) ]_vars
    /\ [](  pc \in ReconnectLoopPcs =>
               (rec.settles = 0 /\ rec.subscribes = 0))
    /\ [](  pc = "rc_settle" =>
               /\ rec.lastObs = "up"
               /\ last = Call("is_connected", "up")
               /\ rec.settles = 0
               /\ rec.subscribes = 0)
    /\ [](  pc = "rc_subscribe" =>
               /\ rec.lastObs = "up"
               /\ last = Call("settle", SETTLE_DELAY_MS)
               /\ rec.settles = 1
               /\ rec.subscribes = 0)
    /\ [][ (last'.op = "subscribe" /\ pc \in RecoveryPcs) =>
               (pc = "rc_subscribe" /\ rec.settles = 1
                  /\ rec.lastObs = "up") ]_vars

\* the re-subscribe is about to be issued after a recovery that had to
\* reconnect
C9_Witness ==
    /\ pc = "rc_subscribe"
    /\ rec.connects >= 1
    /\ rec.lastObs = "up"
    /\ rec.settles = 1

(* ---------------- C10 ---------------- *)

\* C10: in the reconnect loop a "disconnected" observation always leads to
\* another connect(), however many have been made; the loop passes control
\* on only to the settle sleep and only on a "connected" observation, and
\* the function returns nothing from inside the loop (the only other way
\* out is the abort of the process when the query itself fails); a failed
\* connect() is followed by the 10000 ms sleep and then the loop test.
C10_UnboundedReconnect ==
    /\ [][ (pc = "rc_check" /\ last'.res = "down") =>
               (pc' = "rc_connect" /\ rec'.connects = rec.connects) ]_vars
    /\ [][ (pc \in ReconnectLoopPcs /\ pc' \notin ReconnectLoopPcs
               /\ pc' # "panic") =>
               /\ pc = "rc_check"
               /\ pc' = "rc_settle"
               /\ last' = Call("is_connected", "up") ]_vars
    /\ [](pc \in ReconnectLoopPcs => rcResult = "none")
    /\ [][ (pc = "rc_connect" /\ last'.res = "Err") =>
               (pc' = "rc_sleep") ]_vars
    /\ [][ pc = "rc_sleep" =>
               (last' = Call("sleep", RECONNECT_DELAY_MS)
                  /\ pc' = "rc_check") ]_vars
    /\ [](  pc = "rc_connect" => rec.lastObs = "down")

\* the loop is about to make yet another connect() after as many attempts
\* and sleeps as the counters of the model can count
C10_Witness ==
    /\ pc = "rc_connect"
    /\ rec.connects = MaxCount
    /\ rec.sleeps = MaxCount
    /\ rec.lastObs = "down"

(* ---------------- C11 ---------------- *)

\* the state in which an iteration of the main cycle begins its link check
FreshIteration ==
    /\ pc = "link_check"
    /\ last = Call("delay", LOOP_DELAY_MS)
    /\ iter = [IterStart EXCEPT !.delays = 1]
    /\ caller = "none"
    /\ data = NoData

\* C11: under FairSpec, once the reconnect loop of a recovery has observed
\* "connected" the recovery eventually returns (or main ends with the error
\* of a failed re-subscribe), and a recovery that returns Ok is eventually
\* followed by the link check of a new iteration that has taken its 5000 ms
\* delay; the step after an Ok return is the delay of the next iteration,
\* never the measurement or the publish of the interrupted one.
C11_RecoveryReturnsToSteady ==
    /\ (pc = "rc_settle") ~> (FreshIteration \/ exitCause = "resubscribe")
    /\ (pc = "rc_return" /\ rcResult = "Ok") ~> FreshIteration
    /\ [][ (pc = "rc_return" /\ rcResult = "Ok") =>
               (pc' = "loop_delay" /\ data' = NoData
                  /\ sensor_json' = NoJson) ]_vars
    /\ [][ pc = "loop_delay" => FreshIteration' ]_vars
    /\ [][ (pc \in RecoveryPcs \cup {"rc_return"}) =>
               (pc' \in RecoveryPcs \cup {"rc_return", "loop_delay", "exit",
                                          "panic"}) ]_vars

\* a recovery that had to reconnect has returned and the next iteration is
\* at its link check
C11_Witness ==
    /\ FreshIteration
    /\ rec.connects >= 1
    /\ rec.subscribes = 1
    /\ subscribed

(* ---------------- C12 ---------------- *)

\* the places of the main cycle where no reading is held: main.rs:141-155
\* run before `data` is bound, and a recovery entered from main.rs:145 holds
\* none either
NoReadingPcs == {"loop_delay", "link_check", "set_mode", "get_data"}

\* C12: at most one reading is in flight and nothing is buffered. Every
\* publish call sends the encoding of the reading measured earlier in the
\* same iteration, no reading is passed to publish twice, every measured
\* reading but the one in hand has been passed to publish, and once an
\* iteration is over (normally or through recovery after a failed publish) its
\* reading is gone and is never sent again.
C12_OneReadingInFlight ==
    /\ [][ (pc = "publish") =>
              /\ data.no = readNo
              /\ data.no >= 1
              /\ data.no \notin sent
              /\ iter.reads = 1
              /\ iter.publishes = 0
              /\ sensor_json = ToJson(FormatReading(data.r))
              /\ wire' = [no |-> data.no, bytes |-> sensor_json]
              /\ sent' = sent \cup {data.no} ]_vars
    /\ [][ (pc # "publish") => (wire' = wire /\ sent' = sent) ]_vars
    /\ [](sent \subseteq 1..readNo)
    /\ [](readNo - Cardinality(sent) <= 1)
    /\ [](pc \in NoReadingPcs => (data = NoData /\ sensor_json = NoJson))
    /\ [](iter.publishes <= 1)

C12_Witness ==
    /\ pc = "loop_delay"
    /\ caller = "publish_fail"
    /\ last = Call("return", "Ok")
    /\ data = NoData
    /\ wire.no = 1
    /\ sent = {1}

(* ---------------- C13 ---------------- *)

\* C13: one transport session at most is ever created. At most one creation
\* attempt succeeds, the client is held exactly when that attempt has
\* succeeded, no creation attempt is made once the startup creation loop has
\* ended (so none inside recovery), and subscribe and publish are called only
\* on that session, after its creation.
C13_SingleSession ==
    /\ [](sessions <= 1)
    /\ [](client = "Some" <=> sessions = 1)
    /\ [][ CreationLoopEnded =>
              /\ createAttempts' = createAttempts
              /\ sessions' = sessions
              /\ client' = client
              /\ called' \subseteq called \cup
                     {"is_connected", "set_sensor_mode", "get_sensor_data",
                      "publish", "subscribe", "connect"} ]_vars
    /\ [][ (sessions = 1) => (pc' # "create" /\ sessions' = 1) ]_vars
    /\ []((pc \in {"subscribe", "publish"} \cup RecoveryPcs)
             => (client = "Some" /\ sessions = 1))
    /\ []((called \cap {"subscribe", "publish"} # {})
             => (client = "Some" /\ sessions = 1))

C13_Witness ==
    /\ pc = "rc_return"
    /\ rec.connects >= 1
    /\ rcResult = "Ok"
    /\ "publish" \in called
    /\ createAttempts = 2
    /\ sessions = 1

(* ---------------- C14 ---------------- *)

\* C14: the callback shares no state with the main cycle. Whatever event and
\* payload it is invoked with, and wherever it is interleaved, every step of
\* the program either is a step of the main thread or leaves the whole state
\* of the main thread (retry counters, position, link, session and
\* subscription status, operations performed) as it was, so that the main
\* thread's run is one it also has without callbacks.
C14_CallbackLeavesMainCycleAlone ==
    [][ Next \/ UNCHANGED mainVars ]_vars

(* ---------------- C15 ---------------- *)

\* the latest callback invocation was handed a non-empty payload that does
\* not decode as {"message": string}
UndecodablePayload ==
    /\ cbLog.ev = "Received"
    /\ cbLog.bytes # <<>>
    /\ ~FromJson(cbLog.bytes).ok

\* C15: for every non-empty payload that fails to decode, bytes that are not
\* UTF-8 included, the callback logs the payload and discards it; the process
\* is not aborted and the main cycle goes on.
C15_DecodeFailureDiscarded ==
    UndecodablePayload =>
        /\ cbLog.did = "log_parse_error"
        /\ exitCause # "callback_panic"

(* ---------------- C16 ---------------- *)

\* a value given in tenths, truncated toward zero to an integer
TruncTowardZero(x10) == IF x10 < 0 THEN -((-x10) \div 10) ELSE x10 \div 10

\* Display of an integer
IntText(z) == IF z < 0 THEN <<"-">> \o Decimal(-z) ELSE Decimal(z)

\* the message text for reading r: the four values truncated toward zero,
\* joined by ", " in the order temperature, humidity, pressure, gas
TruncatedText(r) ==
    IntText(TruncTowardZero(r.t)) \o <<",", " ">>
        \o IntText(TruncTowardZero(r.h)) \o <<",", " ">>
        \o IntText(TruncTowardZero(r.p)) \o <<",", " ">>
        \o IntText(r.g)

\* C16: for every reading, the JSON handed to publish decodes to a message
\* whose text is the four values truncated toward zero and joined by ", ";
\* {21.7, 55.3, 1013.2, 12000} gives "21, 55, 1013, 12000".
C16_TruncatedTextRoundTrips ==
    (pc = "publish") =>
        FromJson(sensor_json) = [ok |-> TRUE, text |-> TruncatedText(data.r)]

(* ---------------- C17 ---------------- *)

\* the positions of the main cycle outside recovery
CyclePcs == {"loop_delay", "link_check", "set_mode", "get_data", "encode",
             "publish"}

\* the counters of an iteration that did each of its operations once and
\* entered no recovery
GoodIteration ==
    [delays |-> 1, checks |-> 1, linkTop |-> "up", modes |-> 1,
     reads |-> 1, publishes |-> 1, recoveries |-> 0]

\* C17: as long as the link is reported connected, the measurement succeeds
\* and the publish succeeds, an iteration is the 5000 ms delay, one link
\* check, one measurement (mode setting, then reading) and one successful
\* publish, in that order; it enters no recovery and issues no subscribe, and
\* the next iteration starts from the same state as this one did.
C17_AllGoodIteration ==
    /\ [][ (pc = "loop_delay") => FreshIteration' ]_vars
    /\ [][ (pc = "link_check" /\ last'.res = "up") =>
              (last'.op = "is_connected" /\ pc' = "set_mode") ]_vars
    /\ [][ (pc = "set_mode" /\ last'.res = "Ok") =>
              (last'.op = "set_sensor_mode" /\ pc' = "get_data") ]_vars
    /\ [][ (pc = "get_data" /\ last'.res = "Ok") =>
              (last'.op = "get_sensor_data" /\ pc' = "encode") ]_vars
    /\ [][ (pc = "encode") => (pc' = "publish" /\ iter' = iter) ]_vars
    /\ [][ (pc = "publish" /\ last'.res = "Ok") =>
              /\ last'.op = "publish"
              /\ pc' = "loop_delay"
              /\ iter' = GoodIteration
              /\ caller' = "none" ]_vars
    /\ [][ (pc \in CyclePcs /\ pc' \in CyclePcs) =>
              /\ last'.op \notin {"subscribe", "connect", "settle", "sleep"}
              /\ subscribed' = subscribed
              /\ rec' = rec
              /\ iter'.recoveries = 0 ]_vars

C17_Witness ==
    /\ pc = "loop_delay"
    /\ last = Call("publish", "Ok")
    /\ iter = GoodIteration
    /\ sent = {1, 2}
    /\ rec = RecStart
    /\ startupSubs = 1

(* ---------------- C18 ---------------- *)

\* C18 as claimed: in every iteration, those entering recovery included,
\* is_connected() is queried once, at the top of the iteration.
C18_AsClaimed ==
    /\ iter.checks <= 1
    /\ (pc \in (CyclePcs \cup RecoveryPcs \cup {"rc_return"})
                 \ {"loop_delay", "link_check"} => iter.checks = 1)

\* the smaller of two numbers
Min(a, b) == IF a < b THEN a ELSE b

\* C18: every iteration queries is_connected() once at its top, before
\* anything else; an iteration that enters no recovery makes no other query,
\* and an iteration that enters recovery queries it again as the test of the
\* reconnect loop, once on entry and once after every successful connect, so
\* at least twice in all by the time the loop is left.
C18_LinkQueries ==
    /\ [][ (pc = "link_check") =>
              /\ iter.checks = 0
              /\ iter'.checks = 1
              /\ last'.op = "is_connected"
              /\ iter'.linkTop = last'.res ]_vars
    /\ [][ (iter'.checks # iter.checks) =>
              pc \in {"loop_delay", "link_check", "rc_check"} ]_vars
    /\ [](iter.recoveries = 0 => iter.checks <= 1)
    /\ [](pc \in {"set_mode", "get_data", "encode", "publish"}
             => iter.checks = 1)
    /\ [](pc \in RecoveryPcs \cup {"rc_return"}
             => iter.checks = Min(1 + rec.checks, MaxCount))
    /\ [](pc \in {"rc_settle", "rc_subscribe", "rc_return"}
             => (rec.checks >= 1 /\ iter.checks >= 2))

C18_Witness ==
    /\ pc = "rc_return"
    /\ caller = "link_down"
    /\ rec.connects = 1
    /\ rec.checks = 2
    /\ iter.checks = 3

(* ---------------- C19 ---------------- *)

\* the startup subscription loop has used up its attempts without success
SubscriptionExhausted ==
    /\ pc \notin StartupPcs
    /\ startupSubs = MAX_RETRY_ATTEMPTS
    /\ ~subscribed

\* C19: subscribe is issued in two places only, the startup retry loop (at
\* most 3 times) and once per entry into recovery, after the settle sleep; a
\* step of the main cycle outside recovery issues none. So after exhaustion
\* of the initial subscription the node stays unsubscribed as long as it stays
\* in the main cycle, and becomes subscribed only by the re-subscribe of a
\* recovery entered on link loss or publish failure.
C19_SubscribeSites ==
    /\ [][ (last'.op = "subscribe" /\ last' # last) =>
              pc \in {"subscribe", "rc_subscribe"} ]_vars
    /\ [][ (subscribed' # subscribed) =>
              (pc \in {"subscribe", "rc_subscribe"} /\ subscribed') ]_vars
    /\ [](startupSubs <= MAX_RETRY_ATTEMPTS)
    /\ [][ (pc \notin StartupPcs) => startupSubs' = startupSubs ]_vars
    /\ [](rec.subscribes <= 1)
    /\ [](pc = "rc_subscribe" =>
             /\ rec.subscribes = 0
             /\ rec.settles = 1
             /\ iter.recoveries = 1
             /\ caller \in {"link_down", "publish_fail"})
    /\ [](pc = "rc_return" => rec.subscribes = 1)
    /\ [][ (pc \in CyclePcs /\ pc' \in CyclePcs) =>
              /\ last'.op # "subscribe"
              /\ subscribed' = subscribed
              /\ rec'.subscribes = rec.subscribes ]_vars
    /\ [][ (SubscriptionExhausted /\ subscribed') =>
              (pc = "rc_subscribe" /\ last' = Call("subscribe", "Ok")) ]_vars

C19_Witness ==
    /\ pc = "rc_return"
    /\ startupSubs = MAX_RETRY_ATTEMPTS
    /\ retry_count = MAX_RETRY_ATTEMPTS
    /\ "publish" \in called
    /\ sent = {1}
    /\ caller = "link_down"
    /\ last = Call("subscribe", "Ok")
    /\ subscribed

(* ---------------- C20 ---------------- *)

\* a recovery entered from the failed publish of main.rs:175-178 whose first
\* link query reported the link connected
PublishFailureLinkUp ==
    /\ pc \in RecoveryPcs \cup {"rc_return"}
    /\ caller = "publish_fail"
    /\ rec.checks = 1
    /\ rec.lastObs = "up"

\* C20: when recovery is entered on a publish failure and the link reports
\* connected, the body of the reconnect loop is not executed: the first loop
\* test leads straight to the settle sleep, no connect is attempted and no
\* 10000 ms retry sleep is taken, and recovery is the settle sleep followed
\* by one re-subscribe on the session created at startup.
C20_PublishFailureRecoveryIsShort ==
    /\ [][ (pc = "rc_check" /\ caller = "publish_fail" /\ rec = RecStart
               /\ last'.res = "up") =>
              /\ pc' = "rc_settle"
              /\ rec' = [RecStart EXCEPT !.checks = 1, !.lastObs = "up"] ]_vars
    /\ [](PublishFailureLinkUp =>
             /\ pc \in {"rc_settle", "rc_subscribe", "rc_return"}
             /\ rec.connects = 0
             /\ rec.sleeps = 0
             /\ client = "Some"
             /\ sessions = 1)
    /\ [][ (PublishFailureLinkUp /\ pc = "rc_settle") =>
              (last' = Call("settle", SETTLE_DELAY_MS)
                  /\ pc' = "rc_subscribe") ]_vars
    /\ [][ (PublishFailureLinkUp /\ pc = "rc_subscribe") =>
              (last'.op = "subscribe" /\ pc' = "rc_return") ]_vars
    /\ []((PublishFailureLinkUp /\ pc = "rc_return") =>
             rec = [checks |-> 1, lastObs |-> "up", connects |-> 0,
                    sleeps |-> 0, settles |-> 1, subscribes |-> 1])

C20_Witness ==
    /\ PublishFailureLinkUp
    /\ pc = "rc_return"
    /\ "connect" \notin called
    /\ rcResult = "Ok"

====
